---- MODULE Spec2Model ----
(***************************************************************************)
(* PSt_CV.py: conversion of .pssession files to tab-separated text.        *)
(*                                                                         *)
(* convert_pessession_to_text walks the selected files; for each one       *)
(* parse_pessession_file isolates the first brace-balanced span of the     *)
(* decoded text, hands it to json.loads, walks Measurements / Curves and   *)
(* collects the scans; the driver then renders the scans side by side.     *)
(*                                                                         *)
(* Text is a sequence of characters over Chars.  Python indices are kept   *)
(* 0-based: content[i] of the source is content[i + 1] here.  A dict is a  *)
(* record with a field keys (the keys it has) beside its values, so that   *)
(* `k in d` is k \in d.keys.  The document is read as the loops reach it:  *)
(* the measurement and the curve of an iteration are drawn when the        *)
(* iteration starts.  A written line is a sequence of tokens: a cell's     *)
(* text, TAB or NL.                                                        *)
(***************************************************************************)
EXTENDS Integers, Sequences, FiniteSets, TLC

VARIABLES
    pc,              \* position in convert_pessession_to_text / parse_pessession_file
    n_files,         \* len(pessession_files)
    file_idx,        \* 1-based position of the file of the current iteration
    attempted,       \* history: the files handed to parse_pessession_file, in order
    empty_files,     \* history: the files whose parse returned an empty scan list
    failed_files,    \* history: the files whose rendering raised
    out_files,       \* the files whose output file has been opened for writing
    content,         \* decoded text of the current file (until json.loads returns)
    json_content,    \* the isolated span
    loaded,          \* history: json.loads returned a document for the current file
    data,            \* the parsed document: Measurements present?, how many
    measurement_idx, \* enumerate index of the measurement loop
    measurement,     \* the current measurement: Curves present?, how many
    curve_idx,       \* enumerate index of the curve loop
    all_scans,       \* the scan list (parse's local, then the driver's binding)
    origin,          \* history: <<measurement_idx, curve_idx>> of each record of all_scans
    expected,        \* history: the records the well-formed curves read so far call for
    exc,             \* the exception in flight ("none" when there is none)
    output_file      \* the lines written to the current output file

vars == <<pc, n_files, file_idx, attempted, empty_files, failed_files, out_files, content,
          json_content, loaded, data, measurement_idx, measurement, curve_idx,
          all_scans, origin, expected, exc, output_file>>

(***************************************************************************)
(* Bounds of the model.                                                    *)
(***************************************************************************)
MaxFiles == 2
MaxLen == 5
MaxMeas == 2
MaxCurves == 2
MaxPoints == 2
MaxScans == 2

\* "q" is the double quote, "B" the byte-order mark U+FEFF, "x" any character
\* other than a brace, a quote, a backslash or the mark.
Chars == {"{", "}", "q", "x", "B"}
BOM == "B"
\* the numbers under V in the documents: potentials and currents
XVals == {1}
YVals == {2}
\* the numbers of the scan lists handed to the renderer
PotentialVals == {1, 2}
CurrentVals == {3}

TAB == "\t"
NL == "\n"

Texts == UNION {[1..n -> Chars] : n \in 0..MaxLen}

(***************************************************************************)
(* The documents json.loads can return, part by part.                      *)
(***************************************************************************)
PointsOf(vals) == {[keys |-> {"V"}, V |-> v] : v \in vals} \cup {[keys |-> {}, V |-> 0]}

DataValuesOf(vals) == UNION {[1..n -> PointsOf(vals)] : n \in 0..MaxPoints}

NoAxis == [keys |-> {}, DataValues |-> <<>>]

AxisArraysOf(vals) ==
    {NoAxis} \cup {[keys |-> {"DataValues"}, DataValues |-> dv] : dv \in DataValuesOf(vals)}

MkCurve(hasX, x, hasY, y) ==
    [keys |-> (IF hasX THEN {"XAxisDataArray"} ELSE {}) \cup
              (IF hasY THEN {"YAxisDataArray"} ELSE {}),
     XAxisDataArray |-> IF hasX THEN x ELSE NoAxis,
     YAxisDataArray |-> IF hasY THEN y ELSE NoAxis]

Curves ==
    {MkCurve(hasX, x, hasY, y) :
        hasX \in BOOLEAN, x \in AxisArraysOf(XVals),
        hasY \in BOOLEAN, y \in AxisArraysOf(YVals)}

\* A measurement: whether it has Curves, and how long the list is.
Measurements ==
    {[keys |-> {}, nCurves |-> 0]} \cup
    {[keys |-> {"Curves"}, nCurves |-> n] : n \in 0..MaxCurves}

\* The top-level object: whether it has Measurements, and how long the list is.
Documents ==
    {[keys |-> {}, nMeasurements |-> 0]} \cup
    {[keys |-> {"Measurements"}, nMeasurements |-> n] : n \in 0..MaxMeas}

\* The records parse_pessession_file can emit, and the lists of up to MaxScans of them.
ScanRecords ==
    UNION {{[scan_number |-> sn, potential |-> p, current |-> c] :
                sn \in 1..MaxCurves, p \in [1..n -> PotentialVals], c \in [1..n -> CurrentVals]} :
           n \in 1..MaxPoints}

ScanLists == UNION {[1..n -> ScanRecords] : n \in 0..MaxScans}

NoData == [keys |-> {}, nMeasurements |-> 0]
NoMeasurement == [keys |-> {}, nCurves |-> 0]

(***************************************************************************)
(* Payload isolation, lines 15-40.                                         *)
(***************************************************************************)
\* content[1:] when content starts with the mark (lines 15-16)
StripBOM(raw) ==
    IF Len(raw) > 0 /\ raw[1] = BOM THEN SubSeq(raw, 2, Len(raw)) ELSE raw

\* str.find: the 0-based index of the first ch, -1 when there is none
Find(text, ch) ==
    IF \E i \in 1..Len(text) : text[i] = ch
    THEN (CHOOSE i \in 1..Len(text) :
              text[i] = ch /\ \A j \in 1..(i - 1) : text[j] # ch) - 1
    ELSE -1

\* one pass of the while body's if / elif (lines 29-32)
BraceStep(ch, brace_count) ==
    IF ch = "{" THEN brace_count + 1
    ELSE IF ch = "}" THEN brace_count - 1
    ELSE brace_count

RECURSIVE ScanAware(_, _, _, _)
ScanAware(text, brace_count, end_idx, in_string) ==
    IF brace_count > 0 /\ end_idx < Len(text)
    THEN LET ch == text[end_idx + 1] IN
         ScanAware(text,
                   IF in_string THEN brace_count ELSE BraceStep(ch, brace_count),
                   end_idx + 1,
                   IF ch = "q" THEN ~in_string ELSE in_string)
    ELSE [brace_count |-> brace_count, end_idx |-> end_idx]

\* a scanner that leaves the braces of quoted strings out of the count
ScanBracesStringAware(text, brace_count, end_idx) ==
    ScanAware(text, brace_count, end_idx, FALSE)

\* the while loop of lines 28-33
RECURSIVE ScanBraces(_, _, _)
ScanBraces(text, brace_count, end_idx) ==
    IF brace_count > 0 /\ end_idx < Len(text)
    THEN ScanBraces(text, BraceStep(text[end_idx + 1], brace_count), end_idx + 1)
    ELSE [brace_count |-> brace_count, end_idx |-> end_idx]

\* content[start_idx + 1:end_idx]
SliceAfterStart(text, start_idx, end_idx) == SubSeq(text, start_idx + 2, end_idx)

\* content[start_idx:end_idx] (line 40)
JsonSpan(text, start_idx, end_idx) == SubSeq(text, start_idx + 1, end_idx)

\* Lines 19-40 on a text: "NoJsonFound", "IncompleteJson", or "ok" with the span.
Isolate(text) ==
    LET start_idx == Find(text, "{") IN
    IF start_idx = -1
    THEN [status |-> "NoJsonFound", span |-> <<>>]
    ELSE LET s == ScanBraces(text, 1, start_idx + 1) IN
         IF s.brace_count > 0
         THEN [status |-> "IncompleteJson", span |-> <<>>]
         ELSE [status |-> "ok", span |-> JsonSpan(text, start_idx, s.end_idx)]

(***************************************************************************)
(* json.loads on a span.  With "x" standing for many characters the model  *)
(* cannot tell every valid text from an invalid one; it knows the texts    *)
(* that are invalid whatever "x" stands for: a quote left open, braces     *)
(* outside strings that do not nest into one object covering the span, an  *)
(* object opened directly after another opening brace, a mark outside a    *)
(* string.  On those json.loads raises; on the others it may do either.    *)
(***************************************************************************)
RECURSIVE JsonScan(_, _, _, _, _)
JsonScan(span, i, depth, in_string, prev) ==
    IF i > Len(span) THEN ~in_string /\ depth = 0
    ELSE LET ch == span[i] IN
         IF in_string THEN JsonScan(span, i + 1, depth, ch # "q", ch)
         ELSE IF ch = "q" THEN depth > 0 /\ JsonScan(span, i + 1, depth, TRUE, ch)
         ELSE IF ch = "{"
              THEN /\ prev # "{"
                   /\ (i = 1 \/ depth > 0)
                   /\ JsonScan(span, i + 1, depth + 1, FALSE, ch)
         ELSE IF ch = "}" THEN depth > 0 /\ JsonScan(span, i + 1, depth - 1, FALSE, ch)
         ELSE IF ch = BOM THEN FALSE
         ELSE JsonScan(span, i + 1, depth, FALSE, ch)

MayBeJson(span) == Len(span) > 0 /\ span[1] = "{" /\ JsonScan(span, 1, 0, FALSE, "x")

(***************************************************************************)
(* Scan assembly, the body of the curve loop (lines 52-74).                *)
(***************************************************************************)
\* [point['V'] for point in curve[axis]['DataValues']]; KeyError when a point has no V
Comprehension(values) ==
    IF \E i \in 1..Len(values) : "V" \notin values[i].keys
    THEN [raised |-> TRUE, list |-> <<>>]
    ELSE [raised |-> FALSE, list |-> [i \in 1..Len(values) |-> values[i].V]]

\* lines 57-58 and 62-63: the series of one axis, empty unless the path exists
AxisSeries(cv, axis) ==
    IF axis \in cv.keys /\ "DataValues" \in cv[axis].keys
    THEN Comprehension(cv[axis].DataValues)
    ELSE [raised |-> FALSE, list |-> <<>>]

\* the record appended position among the survivors
ScanNumberAmongSurvivors(scans, idx) == Len(scans) + 1

\* 'scan_number': curve_idx + 1 (line 71)
ScanNumber(scans, idx) == idx + 1

\* lines 66-74: the scan list after the curve
AppendScan(scans, idx, potential, current) ==
    IF Len(potential) > 0 /\ Len(current) > 0
    THEN IF Len(potential) # Len(current)
         THEN scans
         ELSE Append(scans, [scan_number |-> ScanNumber(scans, idx),
                             potential |-> potential,
                             current |-> current])
    ELSE scans

\* lines 53-64: the two series read from one curve, or the KeyError
ReadCurve(cv) ==
    LET p == AxisSeries(cv, "XAxisDataArray") IN
    IF p.raised THEN [raised |-> TRUE, potential |-> <<>>, current |-> <<>>]
    ELSE LET c == AxisSeries(cv, "YAxisDataArray") IN
         IF c.raised THEN [raised |-> TRUE, potential |-> <<>>, current |-> <<>>]
         ELSE [raised |-> FALSE, potential |-> p.list, current |-> c.list]

(***************************************************************************)
(* Rendering, lines 130-154.                                               *)
(***************************************************************************)
\* the label taken from the record's own scan_number
ScanLabelByScanNumber(scans, scan_num) ==
    "Scan " \o ToString(scans[scan_num + 1].scan_number)

\* f"Scan {scan_num + 1}" (line 134)
ScanLabel(scans, scan_num) == "Scan " \o ToString(scan_num + 1)

\* the loop of lines 133-134, from scan_num on
RECURSIVE HeaderLine1(_, _)
HeaderLine1(scans, scan_num) ==
    IF scan_num < Len(scans)
    THEN <<ScanLabel(scans, scan_num), TAB, TAB, TAB, TAB>> \o HeaderLine1(scans, scan_num + 1)
    ELSE <<>>

\* the loop of lines 139-140, n groups
RECURSIVE HeaderLine2(_)
HeaderLine2(n) ==
    IF n > 0
    THEN <<"Potential(V)", TAB, "Current(A)", TAB, TAB>> \o HeaderLine2(n - 1)
    ELSE <<>>

\* max(len(scan['potential']) for scan in all_scans) (line 144)
max_points(scans) ==
    CHOOSE m \in {Len(scans[k].potential) : k \in 1..Len(scans)} :
        \A k \in 1..Len(scans) : Len(scans[k].potential) <= m

\* a placeholder one tab short
ShortPlaceholder == <<TAB, TAB>>

\* "\t\t\t" (line 153)
Placeholder == <<TAB, TAB, TAB>>

\* lines 150-153: what one scan adds to the line of point i
DataCells(scan, i) ==
    IF i < Len(scan.potential)
    THEN <<ToString(scan.potential[i + 1]), TAB, ToString(scan.current[i + 1]), TAB, TAB>>
    ELSE Placeholder

\* the loop of lines 149-153, from the k-th scan on
RECURSIVE DataLine(_, _, _)
DataLine(scans, i, k) ==
    IF k <= Len(scans)
    THEN DataCells(scans[k], i) \o DataLine(scans, i, k + 1)
    ELSE <<>>

\* every write of lines 135-154, in order
Table(scans) ==
    <<HeaderLine1(scans, 0) \o <<NL>>, HeaderLine2(Len(scans)) \o <<NL>>>> \o
    [i \in 1..max_points(scans) |-> DataLine(scans, i - 1, 1) \o <<NL>>]

(***************************************************************************)
(* Exceptions: where control goes when one is raised.                      *)
(***************************************************************************)
ReadErrors == {"OSError", "UnicodeError"}

\* an except clause that lets the JSON parser's error through
CaughtUnlessJson(e) == e # "JSONDecodeError"

\* except Exception (line 83)
CaughtByParse(e) == TRUE

\* except Exception (line 158); past it the exception ends the run
DriverRaise(e) == "driver_except"

\* raised inside the try of parse_pessession_file
ParseRaise(e) == IF CaughtByParse(e) THEN "except" ELSE DriverRaise(e)

\* a break in place of the continue
BreakAfterSkip == "done"

\* continue (line 123)
AfterSkip == "loop"

(***************************************************************************)
(* What the well-formed curves call for: one record for a curve whose two  *)
(* series are defined, non-empty and equally long.                         *)
(***************************************************************************)
HasSeries(cv, axis) ==
    axis \in cv.keys /\ "DataValues" \in cv[axis].keys

WellFormedAxis(cv, axis) ==
    HasSeries(cv, axis) =>
        \A i \in 1..Len(cv[axis].DataValues) : "V" \in cv[axis].DataValues[i].keys

SeriesOf(cv, axis) ==
    IF HasSeries(cv, axis)
    THEN [i \in 1..Len(cv[axis].DataValues) |-> cv[axis].DataValues[i].V]
    ELSE <<>>

WellFormedCurve(cv) ==
    WellFormedAxis(cv, "XAxisDataArray") /\ WellFormedAxis(cv, "YAxisDataArray")

CallsForRecord(cv) ==
    /\ WellFormedCurve(cv)
    /\ Len(SeriesOf(cv, "XAxisDataArray")) > 0
    /\ Len(SeriesOf(cv, "XAxisDataArray")) = Len(SeriesOf(cv, "YAxisDataArray"))

\* the record a curve calls for, as a list of none or one
Wanted(cv) ==
    IF CallsForRecord(cv)
    THEN <<[potential |-> SeriesOf(cv, "XAxisDataArray"),
            current |-> SeriesOf(cv, "YAxisDataArray")]>>
    ELSE <<>>

\* The curves an iteration can meet, told apart by what lines 53-64 read from
\* them and by the record they call for.
CurveReadings == {[read |-> ReadCurve(cv), wanted |-> Wanted(cv)] : cv \in Curves}

(***************************************************************************)
(* The state machine.                                                      *)
(***************************************************************************)
Init ==
    /\ pc = "start"
    /\ n_files = 0
    /\ file_idx = 0
    /\ attempted = <<>>
    /\ empty_files = {}
    /\ failed_files = {}
    /\ out_files = {}
    /\ content = <<>>
    /\ json_content = <<>>
    /\ loaded = FALSE
    /\ data = NoData
    /\ measurement_idx = 0
    /\ measurement = NoMeasurement
    /\ curve_idx = 0
    /\ all_scans = <<>>
    /\ origin = <<>>
    /\ expected = <<>>
    /\ exc = "none"
    /\ output_file = <<>>

driver_vars == <<n_files, file_idx, attempted, empty_files, failed_files, out_files, output_file>>
text_vars == <<content, json_content, loaded>>
walk_vars == <<data, measurement_idx, measurement, curve_idx>>
scan_vars == <<all_scans, origin, expected>>

\* lines 91-110: the folder is missing, holds no .pssession file, or holds n of them
StartBatch ==
    /\ pc = "start"
    /\ \E exists \in BOOLEAN, n \in 0..MaxFiles :
          /\ n_files' = IF exists THEN n ELSE 0
          /\ pc' = IF exists /\ n > 0 THEN "loop" ELSE "done"
    /\ UNCHANGED <<file_idx, attempted, empty_files, failed_files, out_files, output_file,
                   text_vars, walk_vars, scan_vars, exc>>

\* lines 113-119 and 9-10: the next file is handed to parse_pessession_file
NextFile ==
    /\ pc = "loop"
    /\ file_idx < n_files
    /\ file_idx' = file_idx + 1
    /\ attempted' = Append(attempted, file_idx + 1)
    /\ content' = <<>>
    /\ json_content' = <<>>
    /\ loaded' = FALSE
    /\ all_scans' = <<>>
    /\ origin' = <<>>
    /\ expected' = <<>>
    /\ output_file' = <<>>
    /\ pc' = "read"
    /\ UNCHANGED <<n_files, empty_files, failed_files, out_files, walk_vars, exc>>

\* the for loop of line 113 is exhausted
EndBatch ==
    /\ pc = "loop"
    /\ file_idx = n_files
    /\ pc' = "done"
    /\ UNCHANGED <<driver_vars, text_vars, walk_vars, scan_vars, exc>>

\* lines 12-16: the file is opened, decoded and read, the leading mark dropped
ReadFile ==
    /\ pc = "read"
    /\ \/ \E raw \in Texts :
             /\ content' = StripBOM(raw)
             /\ pc' = "find"
             /\ exc' = exc
       \/ \E e \in ReadErrors :
             /\ exc' = e
             /\ pc' = ParseRaise(e)
             /\ content' = content
    /\ UNCHANGED <<driver_vars, json_content, loaded, walk_vars, scan_vars>>

\* lines 19-40: the span is isolated, or the function returns []
FindJson ==
    /\ pc = "find"
    /\ LET r == Isolate(content) IN
       IF r.status = "ok"
       THEN /\ json_content' = r.span
            /\ pc' = "loads"
            /\ all_scans' = all_scans
       ELSE /\ pc' = "parsed"
            /\ all_scans' = <<>>
            /\ json_content' = json_content
    /\ UNCHANGED <<driver_vars, content, loaded, walk_vars, origin, expected, exc>>

\* line 41: json.loads raises or returns the document
JsonLoads ==
    /\ pc = "loads"
    /\ \/ /\ exc' = "JSONDecodeError"
          /\ pc' = ParseRaise("JSONDecodeError")
          /\ UNCHANGED <<text_vars, data>>
       \/ /\ MayBeJson(json_content)
          /\ \E d \in Documents : data' = d
          /\ loaded' = TRUE
          /\ content' = <<>>
          /\ json_content' = <<>>
          /\ pc' = "check"
          /\ exc' = exc
    /\ UNCHANGED <<driver_vars, measurement_idx, measurement, curve_idx, scan_vars>>

\* lines 43 and 77-78
CheckMeasurements ==
    /\ pc = "check"
    /\ IF "Measurements" \in data.keys /\ data.nMeasurements > 0
       THEN pc' = "meas"
       ELSE pc' = "ret"
    /\ measurement_idx' = 0
    /\ UNCHANGED <<driver_vars, text_vars, data, measurement, curve_idx, scan_vars, exc>>

\* lines 45-49 and 75-76: the next measurement, with or without Curves
NextMeasurement ==
    /\ pc = "meas"
    /\ measurement_idx < data.nMeasurements
    /\ \E m \in Measurements :
          /\ measurement' = m
          /\ IF "Curves" \in m.keys
             THEN /\ pc' = "curve"
                  /\ measurement_idx' = measurement_idx
             ELSE /\ pc' = "meas"
                  /\ measurement_idx' = measurement_idx + 1
    /\ curve_idx' = 0
    /\ UNCHANGED <<driver_vars, text_vars, data, scan_vars, exc>>

\* the loop of line 45 is exhausted
EndMeasurements ==
    /\ pc = "meas"
    /\ measurement_idx = data.nMeasurements
    /\ pc' = "ret"
    /\ UNCHANGED <<driver_vars, text_vars, walk_vars, scan_vars, exc>>

\* lines 51-74: one curve of the current measurement
ProcessCurve ==
    /\ pc = "curve"
    /\ curve_idx < measurement.nCurves
    /\ \E r \in CurveReadings :
          IF r.read.raised
          THEN /\ exc' = "KeyError"
               /\ pc' = ParseRaise("KeyError")
               /\ UNCHANGED <<curve_idx, scan_vars>>
          ELSE LET scans == AppendScan(all_scans, curve_idx, r.read.potential, r.read.current) IN
               /\ all_scans' = scans
               /\ origin' = IF Len(scans) > Len(all_scans)
                            THEN Append(origin, <<measurement_idx, curve_idx>>)
                            ELSE origin
               /\ expected' = expected \o r.wanted
               /\ curve_idx' = curve_idx + 1
               /\ UNCHANGED <<pc, exc>>
    /\ UNCHANGED <<driver_vars, text_vars, data, measurement_idx, measurement>>

\* the loop of line 51 is exhausted
EndCurves ==
    /\ pc = "curve"
    /\ curve_idx = measurement.nCurves
    /\ measurement_idx' = measurement_idx + 1
    /\ pc' = "meas"
    /\ UNCHANGED <<driver_vars, text_vars, data, measurement, curve_idx, scan_vars, exc>>

\* lines 80-81: return all_scans
ReturnScans ==
    /\ pc = "ret"
    /\ pc' = "parsed"
    /\ data' = NoData
    /\ measurement_idx' = 0
    /\ measurement' = NoMeasurement
    /\ curve_idx' = 0
    /\ UNCHANGED <<driver_vars, text_vars, scan_vars, exc>>

\* lines 83-85: return []
ParseExcept ==
    /\ pc = "except"
    /\ all_scans' = <<>>
    /\ origin' = <<>>
    /\ exc' = "none"
    /\ pc' = "parsed"
    /\ data' = NoData
    /\ measurement_idx' = 0
    /\ measurement' = NoMeasurement
    /\ curve_idx' = 0
    /\ UNCHANGED <<driver_vars, text_vars, expected>>

\* lines 121-123: nothing extracted, nothing written
SkipEmpty ==
    /\ pc = "parsed"
    /\ all_scans = <<>>
    /\ empty_files' = empty_files \cup {file_idx}
    /\ pc' = AfterSkip
    /\ UNCHANGED <<n_files, file_idx, attempted, failed_files, out_files, output_file,
                   text_vars, walk_vars, scan_vars, exc>>

\* lines 126-156: the output file is opened and written; open or a write may raise
Render ==
    /\ pc = "parsed"
    /\ all_scans # <<>>
    /\ \/ /\ exc' = "OSError"
          /\ pc' = DriverRaise("OSError")
          /\ failed_files' = failed_files \cup {file_idx}
          /\ UNCHANGED <<out_files, output_file>>
       \/ \E k \in 0..(Len(Table(all_scans)) - 1) :
             /\ output_file' = SubSeq(Table(all_scans), 1, k)
             /\ out_files' = out_files \cup {file_idx}
             /\ exc' = "OSError"
             /\ pc' = DriverRaise("OSError")
             /\ failed_files' = failed_files \cup {file_idx}
       \/ /\ output_file' = Table(all_scans)
          /\ out_files' = out_files \cup {file_idx}
          /\ pc' = "loop"
          /\ UNCHANGED <<failed_files, exc>>
    /\ UNCHANGED <<n_files, file_idx, attempted, empty_files,
                   text_vars, walk_vars, scan_vars>>

\* lines 158-160: report and continue
DriverExcept ==
    /\ pc = "driver_except"
    /\ exc' = "none"
    /\ pc' = "loop"
    /\ UNCHANGED <<driver_vars, text_vars, walk_vars, scan_vars>>

Next ==
    \/ StartBatch
    \/ NextFile
    \/ EndBatch
    \/ ReadFile
    \/ FindJson
    \/ JsonLoads
    \/ CheckMeasurements
    \/ NextMeasurement
    \/ EndMeasurements
    \/ ProcessCurve
    \/ EndCurves
    \/ ReturnScans
    \/ ParseExcept
    \/ SkipEmpty
    \/ Render
    \/ DriverExcept

Spec == Init /\ [][Next]_vars

\* the interpreter runs the batch on: every enabled step is eventually taken
FairSpec == Spec /\ WF_vars(Next)

(***************************************************************************)
(* parse_pessession_file up to json.loads, on every text: the state after  *)
(* NextFile for a single file, then the steps of lines 12-41 and 83-85.    *)
(***************************************************************************)
ExtractInit ==
    /\ pc = "read"
    /\ n_files = 1
    /\ file_idx = 1
    /\ attempted = <<1>>
    /\ empty_files = {}
    /\ failed_files = {}
    /\ out_files = {}
    /\ content = <<>>
    /\ json_content = <<>>
    /\ loaded = FALSE
    /\ data = NoData
    /\ measurement_idx = 0
    /\ measurement = NoMeasurement
    /\ curve_idx = 0
    /\ all_scans = <<>>
    /\ origin = <<>>
    /\ expected = <<>>
    /\ exc = "none"
    /\ output_file = <<>>

ExtractNext ==
    \/ ReadFile
    \/ FindJson
    \/ JsonLoads
    \/ ParseExcept

ExtractSpec == ExtractInit /\ [][ExtractNext]_vars

(***************************************************************************)
(* The walk of lines 43-81 (and the except of lines 83-85) over every      *)
(* document json.loads can return: the state after JsonLoads for a single  *)
(* file.                                                                   *)
(***************************************************************************)
AssembleInit ==
    /\ pc = "check"
    /\ n_files = 1
    /\ file_idx = 1
    /\ attempted = <<1>>
    /\ empty_files = {}
    /\ failed_files = {}
    /\ out_files = {}
    /\ content = <<>>
    /\ json_content = <<>>
    /\ loaded = TRUE
    /\ data \in Documents
    /\ measurement_idx = 0
    /\ measurement = NoMeasurement
    /\ curve_idx = 0
    /\ all_scans = <<>>
    /\ origin = <<>>
    /\ expected = <<>>
    /\ exc = "none"
    /\ output_file = <<>>

AssembleNext ==
    \/ CheckMeasurements
    \/ NextMeasurement
    \/ EndMeasurements
    \/ ProcessCurve
    \/ EndCurves
    \/ ReturnScans
    \/ ParseExcept

AssembleSpec == AssembleInit /\ [][AssembleNext]_vars

(***************************************************************************)
(* The driver's handling of one returned scan list (lines 121-160), on     *)
(* every list of up to MaxScans records.                                   *)
(***************************************************************************)
RenderInit ==
    /\ pc = "parsed"
    /\ n_files = 1
    /\ file_idx = 1
    /\ attempted = <<1>>
    /\ empty_files = {}
    /\ failed_files = {}
    /\ out_files = {}
    /\ content = <<>>
    /\ json_content = <<>>
    /\ loaded = TRUE
    /\ data = NoData
    /\ measurement_idx = 0
    /\ measurement = NoMeasurement
    /\ curve_idx = 0
    /\ all_scans \in ScanLists
    /\ origin = <<>>
    /\ expected = <<>>
    /\ exc = "none"
    /\ output_file = <<>>

RenderNext ==
    \/ SkipEmpty
    \/ Render
    \/ DriverExcept
    \/ EndBatch

RenderSpec == RenderInit /\ [][RenderNext]_vars

(***************************************************************************)
(* Vocabulary of the properties.                                           *)
(***************************************************************************)
\* opening braces minus closing braces among text[a..b] (1-based, inclusive)
Depth(text, a, b) ==
    Cardinality({i \in a..b : text[i] = "{"}) - Cardinality({i \in a..b : text[i] = "}"})

HasOpen(text) == \E i \in 1..Len(text) : text[i] = "{"

FirstOpen(text) ==
    CHOOSE i \in 1..Len(text) : text[i] = "{" /\ \A j \in 1..(i - 1) : text[j] # "{"

\* the depth counted from the first opening brace returns to zero somewhere
HasBalance(text) ==
    HasOpen(text) /\ \E j \in FirstOpen(text)..Len(text) : Depth(text, FirstOpen(text), j) = 0

FirstBalance(text) ==
    CHOOSE j \in FirstOpen(text)..Len(text) :
        /\ Depth(text, FirstOpen(text), j) = 0
        /\ \A k \in FirstOpen(text)..(j - 1) : Depth(text, FirstOpen(text), k) # 0

NoJsonFound(text) == ~HasOpen(text)
IncompleteJson(text) == HasOpen(text) /\ ~HasBalance(text)

\* parse_pessession_file has returned to the driver
Returned == pc = "parsed"

\* a line without its newline
Row(line) == SubSeq(line, 1, Len(line) - 1)

IsLine(line) ==
    /\ Len(line) > 0
    /\ line[Len(line)] = NL
    /\ \A i \in 1..(Len(line) - 1) : line[i] # NL

TabCount(toks) == Cardinality({i \in 1..Len(toks) : toks[i] = TAB})

RECURSIVE Join(_)
Join(toks) == IF toks = <<>> THEN "" ELSE Head(toks) \o Join(Tail(toks))

\* str.split("\t") of a row
RECURSIVE Cells(_)
Cells(toks) ==
    IF \E i \in 1..Len(toks) : toks[i] = TAB
    THEN LET t == CHOOSE i \in 1..Len(toks) :
                      toks[i] = TAB /\ \A j \in 1..(i - 1) : toks[j] # TAB
         IN <<Join(SubSeq(toks, 1, t - 1))>> \o Cells(SubSeq(toks, t + 1, Len(toks)))
    ELSE <<Join(toks)>>

NonEmpty(cell) == cell # ""

\* the longest potential series of a non-empty scan list
Longest(scans) ==
    CHOOSE m \in {Len(scans[k].potential) : k \in 1..Len(scans)} :
        \A n \in {Len(scans[k].potential) : k \in 1..Len(scans)} : n <= m

\* the output file of the current file has been written to the end
Written ==
    /\ pc \in {"loop", "done"}
    /\ file_idx \in out_files
    /\ file_idx \notin failed_files

\* the 1-based column (split on tabs) of the n-th cell equal to text; 0 when there is none
ColumnOf(cells, text, n) ==
    IF \E c \in 1..Len(cells) :
           cells[c] = text /\ Cardinality({d \in 1..c : cells[d] = text}) = n
    THEN CHOOSE c \in 1..Len(cells) :
             cells[c] = text /\ Cardinality({d \in 1..c : cells[d] = text}) = n
    ELSE 0

Series(scans) ==
    [k \in 1..Len(scans) |-> [potential |-> scans[k].potential, current |-> scans[k].current]]

(***************************************************************************)
(* C1.  The returned scan list is, in document order, exactly one record   *)
(* per curve whose two series are non-empty and equally long, carrying     *)
(* the series unchanged; no other curve adds or changes a record.          *)
(* Stated at the return of parse_pessession_file.                          *)
(***************************************************************************)
C1_ExactlyTheWellFormedCurves ==
    Returned => Series(all_scans) = expected

\* On the path that returns all_scans (lines 80-81) the list is exactly that.
ReturnPathExact ==
    [][(pc = "ret" /\ pc' = "parsed") => Series(all_scans') = expected']_vars

(***************************************************************************)
(* C2.  The scan_number of every record is the 0-based index of its curve  *)
(* in the Curves list of its own measurement, plus 1: neither its place    *)
(* among the surviving curves nor a count across measurements.             *)
(***************************************************************************)
C2_ScanNumberIsSourcePosition ==
    /\ Len(origin) = Len(all_scans)
    /\ \A k \in 1..Len(all_scans) : all_scans[k].scan_number = origin[k][2] + 1

\* a returned list whose first record comes from the second curve of the first
\* measurement (the first curve was dropped) and in which a scan_number repeats
C2_Witness ==
    /\ Returned
    /\ Len(all_scans) >= 2
    /\ origin[1] = <<0, 1>>
    /\ all_scans[1].scan_number = 2
    /\ \E j, k \in 1..Len(all_scans) :
          j < k /\ all_scans[j].scan_number = all_scans[k].scan_number

(***************************************************************************)
(* C3.  The payload handed to json.loads is the substring from the first   *)
(* opening brace to the first closing brace at which the depth, counted    *)
(* over every brace (those inside quotes too), is back to zero.            *)
(***************************************************************************)
C3_PayloadIsFirstBalancedSpan ==
    /\ pc = "loads" => HasBalance(content)
    /\ (pc \in {"loads", "except", "parsed"} /\ ~loaded /\ HasBalance(content)) =>
           json_content = SubSeq(content, FirstOpen(content), FirstBalance(content))

\* text before the first brace, a brace inside quotes that closes the span, text after
C3_Witness ==
    /\ pc = "loads"
    /\ content = <<"x", "{", "q", "}", "q">>
    /\ json_content = <<"{", "q", "}">>

(***************************************************************************)
(* C4.  A text without an opening brace, a text whose nesting never        *)
(* returns to zero and a text whose span json.loads rejects each give the  *)
(* empty scan list, and no exception leaves parse_pessession_file.         *)
(***************************************************************************)
C4_ExtractionFailuresGiveEmptyList ==
    /\ ~(pc = "driver_except" /\ ~loaded)
    /\ (pc \notin {"read", "find"} /\ ~loaded /\ exc = "none" /\ NoJsonFound(content)) =>
           (Returned /\ all_scans = <<>>)
    /\ (pc \notin {"read", "find"} /\ ~loaded /\ IncompleteJson(content)) =>
           (Returned /\ all_scans = <<>>)
    /\ (pc \notin {"read", "find"} /\ ~loaded /\ HasBalance(content)) =>
           (pc \in {"loads", "except", "parsed"} /\ all_scans = <<>>)

\* a span that is not JSON whatever its characters: parse has returned []
C4_Witness ==
    /\ Returned
    /\ ~loaded
    /\ HasBalance(content)
    /\ ~MayBeJson(json_content)
    /\ all_scans = <<>>

(***************************************************************************)
(* C5.  Assembly degrades only to fewer scans: whatever is absent or       *)
(* malformed elsewhere in the document, the record of every well-formed    *)
(* curve is returned.                                                      *)
(***************************************************************************)
C5_WellFormedCurvesSurvive ==
    (Returned /\ loaded) =>
        \A k \in 1..Len(expected) :
            \E j \in 1..Len(all_scans) : Series(all_scans)[j] = expected[k]

(***************************************************************************)
(* C6.  The table has two header rows and Longest(scans) data rows; in     *)
(* data row i every record gives potential[i], current[i] and an empty     *)
(* cell, or three empty cells past its end: three tabs per record.         *)
(***************************************************************************)
C6_TableShape ==
    Written =>
        LET N == Len(all_scans) IN
        /\ Len(output_file) = 2 + Longest(all_scans)
        /\ \A r \in 1..Len(output_file) : IsLine(output_file[r])
        /\ Cells(Row(output_file[1]))[1] = "Scan 1"
        /\ Cells(Row(output_file[2]))[1] = "Potential(V)"
        /\ \A i \in 0..(Longest(all_scans) - 1) :
              LET row == Row(output_file[3 + i])
                  cells == Cells(row)
              IN /\ TabCount(row) = 3 * N
                 /\ Len(cells) = 3 * N + 1
                 /\ cells[3 * N + 1] = ""
                 /\ \A k \in 1..N :
                       IF i < Len(all_scans[k].potential)
                       THEN /\ cells[3 * k - 2] = ToString(all_scans[k].potential[i + 1])
                            /\ cells[3 * k - 1] = ToString(all_scans[k].current[i + 1])
                            /\ cells[3 * k] = ""
                       ELSE /\ cells[3 * k - 2] = ""
                            /\ cells[3 * k - 1] = ""
                            /\ cells[3 * k] = ""

\* a written table whose first record is shorter than its second
C6_Witness ==
    /\ Written
    /\ Len(all_scans) = 2
    /\ Len(all_scans[1].potential) = 1
    /\ all_scans[2].potential = <<1, 2>>
    /\ Len(output_file) = 4

(***************************************************************************)
(* C7.  Every selected file is attempted once, in order, whatever happens  *)
(* to the others: an empty parse writes no output file, an exception while *)
(* rendering is followed by the next file, and the batch reaches its end.  *)
(***************************************************************************)
C7_BatchState ==
    /\ attempted = [i \in 1..file_idx |-> i]
    /\ file_idx <= n_files
    /\ pc \in {"done", "crashed"} => file_idx = n_files
    /\ empty_files \cap out_files = {}

\* C7: the batch state above holds throughout and the run reaches the end of the list
C7_BatchRunsToTheEnd == []C7_BatchState /\ <>(pc = "done")

\* the first file's rendering raised, the second file was read and written
C7_Witness ==
    /\ pc = "done"
    /\ attempted = <<1, 2>>
    /\ 1 \in failed_files
    /\ 2 \in out_files \ failed_files

(***************************************************************************)
(* C8.  Isolation applied to the span it returned gives the whole span     *)
(* again: the span starts with the brace and its depth first returns to    *)
(* zero on its last character.                                             *)
(***************************************************************************)
C8_IsolationIdempotent ==
    pc = "loads" =>
        /\ Isolate(json_content) = [status |-> "ok", span |-> json_content]
        /\ Find(json_content, "{") = 0
        /\ ScanBraces(json_content, 1, 1) = [brace_count |-> 0, end_idx |-> Len(json_content)]

\* a nested span cut out of a longer text
C8_Witness ==
    /\ pc = "loads"
    /\ content = <<"x", "{", "{", "}", "}">>
    /\ json_content = <<"{", "{", "}", "}">>

(***************************************************************************)
(* C9.  The labels of header row 1 are Scan 1 .. Scan N, in order, one per *)
(* record, whatever the records' scan_number.                              *)
(***************************************************************************)
C9_LabelsAreOutputPositions ==
    Written =>
        SelectSeq(Cells(Row(output_file[1])), NonEmpty) =
            [k \in 1..Len(all_scans) |-> "Scan " \o ToString(k)]

\* a written table whose two records both carry scan_number 2
C9_Witness ==
    /\ Written
    /\ Len(all_scans) = 2
    /\ all_scans[1].scan_number = 2
    /\ all_scans[2].scan_number = 2

(***************************************************************************)
(* C10.  For every k the Scan k cell of header row 1, the k-th             *)
(* Potential(V) cell of header row 2 and the potential cell of record k in *)
(* every data row are in the same tab-separated column.                    *)
(***************************************************************************)
C10_ColumnGroupsLineUp ==
    Written =>
        \A k \in 1..Len(all_scans) :
            LET c == ColumnOf(Cells(Row(output_file[1])), "Scan " \o ToString(k), 1) IN
            /\ c > 0
            /\ c = ColumnOf(Cells(Row(output_file[2])), "Potential(V)", k)
            /\ \A i \in 0..(Longest(all_scans) - 1) :
                  /\ c <= Len(Cells(Row(output_file[3 + i])))
                  /\ Cells(Row(output_file[3 + i]))[c] =
                        IF i < Len(all_scans[k].potential)
                        THEN ToString(all_scans[k].potential[i + 1])
                        ELSE ""

====
